---- MODULE Spec2Model ----
(***************************************************************************)
(* Model of src/laser_cooled_molecules/lcm.py: the two-pointer merge       *)
(* accumulate_by_year, one loop iteration per step, and the part of main   *)
(* that derives the year range, calls the accumulator once per category    *)
(* and stacks the three cumulative series.                                 *)
(***************************************************************************)
EXTENDS Integers, Sequences, FiniteSets, TLC

\* ---- bounds of the accumulator inputs drawn for a direct call ----
MaxYear == 3
MaxYears == 3
MaxMolecules == 3

VARIABLES
    Y,                    \* the sequence behind the iterator yit
    M,                    \* the sequence behind the iterator mit
    yit,                  \* number of elements already taken from Y
    mit,                  \* number of elements already taken from M
    out_year,             \* local of accumulate_by_year
    molecule,             \* local of accumulate_by_year
    counter,              \* local of accumulate_by_year
    mol_cnt_accumulated,  \* local of accumulate_by_year, its return value
    pc,                   \* position in accumulate_by_year
    main_pc,              \* position in main ("no_main": a direct call)
    timeline,
    years,
    diatomics_by_year,
    triatomics_by_year,
    polyatomics_by_year,
    di_and_tri_by_year,
    all_by_year

call_vars == <<Y, M, yit, mit, out_year, molecule, counter,
               mol_cnt_accumulated, pc>>
main_vars == <<main_pc, timeline, years, diatomics_by_year,
               triatomics_by_year, polyatomics_by_year, di_and_tri_by_year,
               all_by_year>>
vars == <<Y, M, yit, mit, out_year, molecule, counter, mol_cnt_accumulated,
          pc, main_pc, timeline, years, diatomics_by_year,
          triatomics_by_year, polyatomics_by_year, di_and_tri_by_year,
          all_by_year>>

\* ---- data ----
Date(y, m, d) == [year |-> y, month |-> m, day |-> d]

Molecule(n, d) == [name |-> n, date |-> d]

diatomics ==
    << Molecule("SrF", Date(2010, 9, 19)),
       Molecule("YO",  Date(2013, 4, 1)),
       Molecule("CaF", Date(2014, 5, 16)),
       Molecule("YbF", Date(2018, 3, 22)),
       Molecule("BaH", Date(2020, 8, 18)),
       Molecule("CaH", Date(2022, 8, 9)),
       Molecule("BaF", Date(2022, 3, 14)),
       Molecule("CaD", Date(2024, 8, 5)) >>

triatomics ==
    << Molecule("SrOH", Date(2017, 4, 24)),
       Molecule("YbOH", Date(2020, 2, 19)),
       Molecule("CaOH", Date(2020, 3, 31)) >>

polyatomics ==
    << Molecule("CaOCH$_3$", Date(2020, 9, 11)) >>

\* values of the locals before their first assignment (never read)
Unbound == [name |-> "", date |-> Date(0, 0, 0)]

\* ---- inputs of a direct call ----
RECURSIVE SeqsUpTo(_, _)
SeqsUpTo(S, n) ==
    IF n = 0 THEN { <<>> }
    ELSE LET shorter == SeqsUpTo(S, n - 1)
         IN  shorter \cup { Append(s, x) : s \in shorter, x \in S }

YearInputs == SeqsUpTo(1..MaxYear, MaxYears)

MoleculeInputs ==
    SeqsUpTo({ Molecule("X", Date(y, 1, 1)) : y \in 1..MaxYear }, MaxMolecules)

\* ---- python builtins ----
HasNext(it, seq) == it < Len(seq)

NextValue(it, seq) == seq[it + 1]

Rest(it, seq) == Len(seq) - it

RECURSIVE MinOf(_)
MinOf(s) ==
    IF Len(s) = 1 THEN s[1]
    ELSE LET m == MinOf(Tail(s)) IN IF s[1] < m THEN s[1] ELSE m

RECURSIVE MaxOf(_)
MaxOf(s) ==
    IF Len(s) = 1 THEN s[1]
    ELSE LET m == MaxOf(Tail(s)) IN IF s[1] > m THEN s[1] ELSE m

arangeShort(start, stop) ==
    IF stop - 1 > start THEN [i \in 1..(stop - 1 - start) |-> start + (i - 1)]
    ELSE <<>>

arange(start, stop) ==
    IF stop > start THEN [i \in 1..(stop - start) |-> start + (i - 1)]
    ELSE <<>>

ZipSumShort(a, b) ==
    LET n == IF Len(a) < Len(b) THEN Len(a) ELSE Len(b)
    IN  [i \in 1..(n - 1) |-> a[i] + b[i]]

ZipSum(a, b) ==
    LET n == IF Len(a) < Len(b) THEN Len(a) ELSE Len(b)
    IN  [i \in 1..n |-> a[i] + b[i]]

\* ---- accumulate_by_year ----
YearNotAfterMolecule(y, m) == y <= m.date.year

YearBeforeMolecule(y, m) == y < m.date.year

SaturateCurrentOnly(c, n) == [i \in 1..1 |-> c]

Saturate(c, n) == [i \in 1..n |-> c]

Init ==
    /\ yit = 0
    /\ mit = 0
    /\ out_year = 0
    /\ molecule = Unbound
    /\ counter = 0
    /\ mol_cnt_accumulated = <<>>
    /\ timeline = <<>>
    /\ years = <<>>
    /\ diatomics_by_year = <<>>
    /\ triatomics_by_year = <<>>
    /\ polyatomics_by_year = <<>>
    /\ di_and_tri_by_year = <<>>
    /\ all_by_year = <<>>
    /\ \/ /\ main_pc = "no_main"
          /\ pc = "entry"
          /\ Y \in YearInputs
          /\ M \in MoleculeInputs
       \/ /\ main_pc = "start"
          /\ pc = "idle"
          /\ Y = <<>>
          /\ M = <<>>

\* lines 63-66, both iterators non-empty
Entry ==
    /\ pc = "entry"
    /\ HasNext(yit, Y)
    /\ HasNext(mit, M)
    /\ mol_cnt_accumulated' = <<>>
    /\ out_year' = NextValue(yit, Y)
    /\ yit' = yit + 1
    /\ molecule' = NextValue(mit, M)
    /\ mit' = mit + 1
    /\ counter' = 0
    /\ pc' = "loop"
    /\ UNCHANGED <<Y, M>>
    /\ UNCHANGED main_vars

\* lines 63-65, next(yit) or next(mit) raises StopIteration, uncaught
EntryStopIteration ==
    /\ pc = "entry"
    /\ ~ (HasNext(yit, Y) /\ HasNext(mit, M))
    /\ mol_cnt_accumulated' = <<>>
    /\ IF HasNext(yit, Y)
       THEN /\ out_year' = NextValue(yit, Y)
            /\ yit' = yit + 1
       ELSE UNCHANGED <<out_year, yit>>
    /\ pc' = "StopIteration"
    /\ UNCHANGED <<Y, M, mit, molecule, counter>>
    /\ UNCHANGED main_vars

\* EmitYear emitting per-year counts: the counter restarts after each year
EmitYearAndReset ==
    /\ pc = "loop"
    /\ YearBeforeMolecule(out_year, molecule)
    /\ HasNext(yit, Y)
    /\ mol_cnt_accumulated' = Append(mol_cnt_accumulated, counter)
    /\ counter' = 0
    /\ out_year' = NextValue(yit, Y)
    /\ yit' = yit + 1
    /\ UNCHANGED <<Y, M, mit, molecule, pc>>
    /\ UNCHANGED main_vars

\* lines 68-71 and 74: the year precedes the record, a next year exists
EmitYear ==
    /\ pc = "loop"
    /\ YearBeforeMolecule(out_year, molecule)
    /\ HasNext(yit, Y)
    /\ mol_cnt_accumulated' = Append(mol_cnt_accumulated, counter)
    /\ out_year' = NextValue(yit, Y)
    /\ yit' = yit + 1
    /\ UNCHANGED <<Y, M, mit, molecule, counter, pc>>
    /\ UNCHANGED main_vars

\* EndOfYears leaving the loop instead of raising
EndOfYearsBreak ==
    /\ pc = "loop"
    /\ YearBeforeMolecule(out_year, molecule)
    /\ ~ HasNext(yit, Y)
    /\ mol_cnt_accumulated' = Append(mol_cnt_accumulated, counter)
    /\ pc' = "returned"
    /\ UNCHANGED <<Y, M, yit, mit, out_year, molecule, counter>>
    /\ UNCHANGED main_vars

\* lines 68-73: the year precedes the record and the years are exhausted
EndOfYears ==
    /\ pc = "loop"
    /\ YearBeforeMolecule(out_year, molecule)
    /\ ~ HasNext(yit, Y)
    /\ mol_cnt_accumulated' = Append(mol_cnt_accumulated, counter)
    /\ pc' = "RuntimeError"
    /\ UNCHANGED <<Y, M, yit, mit, out_year, molecule, counter>>
    /\ UNCHANGED main_vars

\* CountMolecule advancing the year iterator along with the record iterator
CountMoleculeAndYear ==
    /\ pc = "loop"
    /\ ~ YearBeforeMolecule(out_year, molecule)
    /\ HasNext(mit, M)
    /\ counter' = counter + 1
    /\ molecule' = NextValue(mit, M)
    /\ mit' = mit + 1
    /\ IF HasNext(yit, Y)
       THEN /\ out_year' = NextValue(yit, Y)
            /\ yit' = yit + 1
       ELSE UNCHANGED <<out_year, yit>>
    /\ UNCHANGED <<Y, M, mol_cnt_accumulated, pc>>
    /\ UNCHANGED main_vars

\* CountMolecule counting only a record of exactly the current year
CountMoleculeExactYear ==
    /\ pc = "loop"
    /\ ~ YearBeforeMolecule(out_year, molecule)
    /\ HasNext(mit, M)
    /\ counter' = IF molecule.date.year = out_year THEN counter + 1
                  ELSE counter
    /\ molecule' = NextValue(mit, M)
    /\ mit' = mit + 1
    /\ UNCHANGED <<Y, M, yit, out_year, mol_cnt_accumulated, pc>>
    /\ UNCHANGED main_vars

\* lines 76-78: the record is counted, a next record exists
CountMolecule ==
    /\ pc = "loop"
    /\ ~ YearBeforeMolecule(out_year, molecule)
    /\ HasNext(mit, M)
    /\ counter' = counter + 1
    /\ molecule' = NextValue(mit, M)
    /\ mit' = mit + 1
    /\ UNCHANGED <<Y, M, yit, out_year, mol_cnt_accumulated, pc>>
    /\ UNCHANGED main_vars

\* lines 76-84: the record is counted and the records are exhausted
EndOfMolecules ==
    /\ pc = "loop"
    /\ ~ YearBeforeMolecule(out_year, molecule)
    /\ ~ HasNext(mit, M)
    /\ counter' = counter + 1
    /\ mol_cnt_accumulated' =
           mol_cnt_accumulated \o Saturate(counter + 1, 1 + Rest(yit, Y))
    /\ out_year' = IF HasNext(yit, Y) THEN Y[Len(Y)] ELSE out_year
    /\ yit' = Len(Y)
    /\ pc' = "returned"
    /\ UNCHANGED <<Y, M, mit, molecule>>
    /\ UNCHANGED main_vars

\* ---- main ----
Category(at) ==
    CASE at = "diatomics"   -> diatomics
      [] at = "triatomics"  -> triatomics
      [] at = "polyatomics" -> polyatomics

Calls == {"diatomics", "triatomics", "polyatomics"}

\* lines 89-98
MainYears ==
    /\ main_pc = "start"
    /\ LET catalog == diatomics \o triatomics \o polyatomics
           tl == [i \in 1..Len(catalog) |-> catalog[i].date.year]
       IN  /\ timeline' = tl
           /\ years' = arange(MinOf(tl) - 1, MaxOf(tl) + 2)
    /\ main_pc' = "diatomics"
    /\ UNCHANGED call_vars
    /\ UNCHANGED <<diatomics_by_year, triatomics_by_year, polyatomics_by_year,
                   di_and_tri_by_year, all_by_year>>

\* lines 107-118: the call, with fresh iterators over years and the list
MainCall ==
    /\ main_pc \in Calls
    /\ pc = "idle"
    /\ Y' = years
    /\ yit' = 0
    /\ M' = Category(main_pc)
    /\ mit' = 0
    /\ out_year' = 0
    /\ molecule' = Unbound
    /\ counter' = 0
    /\ mol_cnt_accumulated' = <<>>
    /\ pc' = "entry"
    /\ UNCHANGED main_vars

\* lines 107-118: the assignment of the returned list
MainReturn ==
    /\ main_pc \in Calls
    /\ pc = "returned"
    /\ diatomics_by_year' =
           IF main_pc = "diatomics" THEN mol_cnt_accumulated
           ELSE diatomics_by_year
    /\ triatomics_by_year' =
           IF main_pc = "triatomics" THEN mol_cnt_accumulated
           ELSE triatomics_by_year
    /\ polyatomics_by_year' =
           IF main_pc = "polyatomics" THEN mol_cnt_accumulated
           ELSE polyatomics_by_year
    /\ main_pc' = CASE main_pc = "diatomics"   -> "triatomics"
                    [] main_pc = "triatomics"  -> "polyatomics"
                    [] main_pc = "polyatomics" -> "stack"
    /\ pc' = "idle"
    /\ UNCHANGED <<Y, M, yit, mit, out_year, molecule, counter,
                   mol_cnt_accumulated>>
    /\ UNCHANGED <<timeline, years, di_and_tri_by_year, all_by_year>>

\* lines 119-124
MainStack ==
    /\ main_pc = "stack"
    /\ di_and_tri_by_year' = ZipSum(triatomics_by_year, diatomics_by_year)
    /\ all_by_year' =
           ZipSum(ZipSum(triatomics_by_year, diatomics_by_year),
                  polyatomics_by_year)
    /\ main_pc' = "plot"
    /\ UNCHANGED call_vars
    /\ UNCHANGED <<timeline, years, diatomics_by_year, triatomics_by_year,
                   polyatomics_by_year>>

Next ==
    \/ Entry
    \/ EntryStopIteration
    \/ EmitYear
    \/ EndOfYears
    \/ CountMolecule
    \/ EndOfMolecules
    \/ MainYears
    \/ MainCall
    \/ MainReturn
    \/ MainStack

Spec == Init /\ [][Next]_vars

\* the interpreter runs the script to its end or to an uncaught exception
FairSpec == Spec /\ WF_vars(Next)

\* ---- vocabulary of the properties ----
Finished == {"returned", "RuntimeError", "StopIteration"}

IsAscending(s) == \A i \in 1..(Len(s) - 1) : s[i] <= s[i + 1]

IsStepOne(s) == \A i \in 1..(Len(s) - 1) : s[i + 1] = s[i] + 1

SortedByYear(m) ==
    \A i \in 1..(Len(m) - 1) : m[i].date.year <= m[i + 1].date.year

CountUpTo(m, y) == Cardinality({ j \in DOMAIN m : m[j].date.year <= y })

LastOf(s) == s[Len(s)]

NoneAfterLastYear == \A j \in DOMAIN M : M[j].date.year <= LastOf(Y)

\* ---- C1 ----
C1_Pre ==
    /\ Y # <<>>
    /\ IsStepOne(Y)
    /\ M # <<>>
    /\ SortedByYear(M)
    /\ Y[1] <= M[1].date.year
    /\ NoneAfterLastYear

\* C1: for a step-1 ascending Y and a non-empty M sorted by year with
\* Y[0] <= M[0].year and no record year after Y[-1], the call returns a list
\* of len(Y) whose i-th element is the number of records with year <= Y[i]
\* (records sharing a year each count).
C1_CumulativeCounts ==
    (C1_Pre /\ pc \in Finished) =>
        /\ pc = "returned"
        /\ Len(mol_cnt_accumulated) = Len(Y)
        /\ \A i \in DOMAIN Y : mol_cnt_accumulated[i] = CountUpTo(M, Y[i])

C1_Witness ==
    /\ pc = "returned"
    /\ C1_Pre
    /\ Len(Y) >= 3
    /\ \E j \in DOMAIN M : \E k \in DOMAIN M :
           j < k /\ M[j].date.year = M[k].date.year
    /\ mol_cnt_accumulated[1] = 0
    /\ mol_cnt_accumulated[2] >= 2
    /\ mol_cnt_accumulated[2] < LastOf(mol_cnt_accumulated)

\* ---- C2 ----
C2_Pre ==
    /\ Y # <<>>
    /\ IsAscending(Y)
    /\ M # <<>>
    /\ SortedByYear(M)
    /\ \E j \in DOMAIN M : M[j].date.year > LastOf(Y)

\* C2: for an ascending Y and a non-empty ascending M with a record year
\* after Y[-1], the call never returns a list and ends in the RuntimeError
\* "End of years before end of molecules.".
C2_ExhaustionError ==
    C2_Pre =>
        /\ pc # "returned"
        /\ pc \in Finished => pc = "RuntimeError"

C2_Witness ==
    /\ pc = "RuntimeError"
    /\ C2_Pre
    /\ Len(Y) >= 2
    /\ counter >= 1
    /\ Len(mol_cnt_accumulated) = Len(Y)

\* ---- C3 ----
\* C3: with an empty record sequence the call returns one zero per year
\* of Y (stated for the calls that do have a year).
C3_EmptyRecordsAllZeros ==
    (Y # <<>> /\ M = <<>> /\ pc \in Finished) =>
        /\ pc = "returned"
        /\ mol_cnt_accumulated = [i \in 1..Len(Y) |-> 0]

\* ---- C4 ----
\* C4: whenever no record year is after Y[-1], the call returns a list whose
\* last element is len(M).
C4_LastIsTotal ==
    (Y # <<>> /\ NoneAfterLastYear /\ pc \in Finished) =>
        /\ pc = "returned"
        /\ LastOf(mol_cnt_accumulated) = Len(M)

\* ---- C5 ----
\* C5: a returned list is non-decreasing, whatever the year sequence and the
\* record sequence.
C5_NonDecreasing ==
    pc = "returned" =>
        \A i \in 1..(Len(mol_cnt_accumulated) - 1) :
            mol_cnt_accumulated[i] <= mol_cnt_accumulated[i + 1]

C5_Witness ==
    /\ pc = "returned"
    /\ ~ IsAscending(Y)
    /\ ~ SortedByYear(M)
    /\ Len(mol_cnt_accumulated) >= 3
    /\ mol_cnt_accumulated[1] >= 1
    /\ mol_cnt_accumulated[1] < LastOf(mol_cnt_accumulated)

AdvancesYear ==
    /\ YearBeforeMolecule(out_year, molecule)
    /\ yit' = yit + 1
    /\ mit' = mit
    /\ out_year' = Y[yit + 1]

AdvancesMolecule ==
    /\ ~ YearBeforeMolecule(out_year, molecule)
    /\ mit' = mit + 1
    /\ yit' = yit
    /\ molecule' = M[mit + 1]

\* C7 as stated, for the iterations that raise nothing: every loop
\* iteration advances exactly one of the two sequences by one element, the
\* years when the year is before the record's year, else the records.
C7_EveryIterationAdvancesOne ==
    [][(pc = "loop" /\ pc' # "RuntimeError") =>
           (AdvancesYear \/ AdvancesMolecule)]_vars

C7_Iteration ==
    /\ pc' = "loop" => (AdvancesYear \/ AdvancesMolecule)
    /\ pc' = "returned" <=>
           (~ YearBeforeMolecule(out_year, molecule) /\ ~ HasNext(mit, M))
    /\ pc' = "returned" =>
           /\ mit' = mit
           /\ mit = Len(M)
           /\ yit' = Len(Y)
           /\ Len(mol_cnt_accumulated') = Len(Y)
    /\ pc' = "RuntimeError" => (yit' = yit /\ mit' = mit)
    /\ yit' >= yit
    /\ mit' >= mit

\* C7 as amended: the call always terminates; every loop iteration that
\* continues the loop advances exactly one of the two sequences by one
\* element (the years when the year is before the record's year, else the
\* records); no position moves backwards; the loop ends normally precisely
\* in the iteration that counts the last record, which reads no record and
\* takes all remaining years at once, so that every year is emitted once;
\* the iteration that raises advances neither sequence.
C7_MergePass ==
    /\ [][pc = "loop" => C7_Iteration]_vars
    /\ (pc = "entry") ~> (pc \in Finished)

C7_Witness ==
    /\ pc = "returned"
    /\ main_pc = "no_main"
    /\ Len(Y) >= 3
    /\ Len(M) >= 2
    /\ yit = Len(Y)
    /\ mit = Len(M)
    /\ mol_cnt_accumulated[1] = 0
    /\ mol_cnt_accumulated[2] = Len(M)
    /\ mol_cnt_accumulated[3] = Len(M)

\* ---- C8 ----
\* C8: main runs each of the three accumulations over a fresh pass of the
\* same years; the three lists have length len(years), and the stacked
\* series are their index-wise sums, so nothing is dropped by the zip and
\* 0 <= diatomics <= di_and_tri <= all at every index.
C8_StackedSeries ==
    /\ (main_pc \in Calls /\ pc = "entry") =>
           (Y = years /\ yit = 0 /\ mit = 0 /\ M = Category(main_pc))
    /\ main_pc = "plot" =>
           /\ Len(diatomics_by_year) = Len(years)
           /\ Len(triatomics_by_year) = Len(years)
           /\ Len(polyatomics_by_year) = Len(years)
           /\ Len(di_and_tri_by_year) = Len(years)
           /\ Len(all_by_year) = Len(years)
           /\ \A i \in DOMAIN years :
                  /\ di_and_tri_by_year[i] =
                         diatomics_by_year[i] + triatomics_by_year[i]
                  /\ all_by_year[i] =
                         di_and_tri_by_year[i] + polyatomics_by_year[i]
                  /\ 0 <= diatomics_by_year[i]
                  /\ diatomics_by_year[i] <= di_and_tri_by_year[i]
                  /\ di_and_tri_by_year[i] <= all_by_year[i]

C8_Witness ==
    /\ main_pc = "plot"
    /\ Len(all_by_year) = 17
    /\ \E i \in DOMAIN years :
           /\ 0 < diatomics_by_year[i]
           /\ diatomics_by_year[i] < di_and_tri_by_year[i]
           /\ di_and_tri_by_year[i] < all_by_year[i]

\* ---- C9 ----
\* C9: each catalog list is non-empty and ascending by year; the years run
\* contiguously from the earliest catalog year - 1 to the latest + 1, so the
\* first is <= every list's first year and the last >= every record year;
\* no call of main raises, and the last bucket of all_by_year is the number
\* of catalog molecules.
C9_MainMeetsPreconditions ==
    main_pc # "no_main" =>
        /\ \A c \in Calls : Category(c) # <<>> /\ SortedByYear(Category(c))
        /\ main_pc # "start" =>
               /\ years # <<>>
               /\ IsStepOne(years)
               /\ years[1] = MinOf(timeline) - 1
               /\ LastOf(years) = MaxOf(timeline) + 1
               /\ Len(timeline) =
                      Len(diatomics) + Len(triatomics) + Len(polyatomics)
               /\ \A c \in Calls :
                      /\ years[1] <= Category(c)[1].date.year
                      /\ \A j \in DOMAIN Category(c) :
                             Category(c)[j].date.year <= LastOf(years)
        /\ pc \notin {"RuntimeError", "StopIteration"}
        /\ main_pc = "plot" =>
               LastOf(all_by_year) =
                   Len(diatomics) + Len(triatomics) + Len(polyatomics)

C9_Witness ==
    /\ main_pc = "plot"
    /\ years[1] = 2009
    /\ LastOf(years) = 2025
    /\ LastOf(all_by_year) = 12

\* ---- C10 ----
C10_Pre ==
    /\ Y # <<>>
    /\ IsAscending(Y)
    /\ M # <<>>
    /\ SortedByYear(M)
    /\ M[1].date.year < Y[1]
    /\ NoneAfterLastYear

\* C10: for an ascending Y and a non-empty ascending M with records before
\* Y[0] and none after Y[-1], the call raises nothing and returns, for every
\* i, the number of records with year <= Y[i]; the records before Y[0] are
\* counted into the first bucket, which is therefore >= 1.
C10_EarlyRecordsCounted ==
    C10_Pre =>
        /\ pc \notin {"RuntimeError", "StopIteration"}
        /\ pc = "returned" =>
               /\ Len(mol_cnt_accumulated) = Len(Y)
               /\ \A i \in DOMAIN Y :
                      mol_cnt_accumulated[i] = CountUpTo(M, Y[i])
               /\ mol_cnt_accumulated[1] >= 1
               /\ mol_cnt_accumulated[1] =
                      Cardinality({ j \in DOMAIN M : M[j].date.year <= Y[1] })

C10_Witness ==
    /\ pc = "returned"
    /\ C10_Pre
    /\ Len(Y) >= 2
    /\ Cardinality({ j \in DOMAIN M : M[j].date.year < Y[1] }) >= 2
    /\ mol_cnt_accumulated[1] = 2
    /\ LastOf(mol_cnt_accumulated) = 3

====
